---- MODULE Spec2Model ----
(***************************************************************************)
(* booltable: text -> Lexer -> Parser -> Compiler -> VM -> TruthTable      *)
(* Display.  Text is a sequence of characters (one-character strings; the  *)
(* two three-byte XOR glyphs are written "U+2295" and "U+22BB").  Spans    *)
(* are byte offsets, as in the source.                                     *)
(***************************************************************************)
EXTENDS Integers, Sequences, FiniteSets, TLC

VARIABLES
  input,     \* main: the line read from stdin
  pc,        \* main: the statement the process is at
  panic,     \* the panic that ended the process, "none" while it runs
  lexer,     \* the Lexer (length, logos position, eof)
  yielded,   \* the items Lexer::next has returned, in call order
  parsed,    \* main: parser.parse_equation()
  compiled,  \* main: compiler.compile()
  stack,     \* VM.stack, top last
  ip,        \* VM::exec: the instruction index
  row,       \* VM::gen: the rows already evaluated
  rows,      \* VM::gen: inputs
  outputs,   \* VM::gen: outputs collected so far
  table,     \* main: vm.gen()
  printed    \* what main wrote to stdout since it last read a line

vars == <<input, pc, panic, lexer, yielded, parsed, compiled, stack, ip, row,
          rows, outputs, table, printed>>

(***************************************************************************)
(* Bounds of the model.                                                    *)
(***************************************************************************)
MaxWords == 3
MaxDepth == 2
MaxLexWords == 3
ExtraCalls == 3

\* `let v = ...;` of the source: In is evaluated with v bound once
Let(v, In(_)) == In(v)

None == [some |-> FALSE]
Some(v) == [some |-> TRUE, val |-> v]

(***************************************************************************)
(* lexer.rs: characters and lexemes                                        *)
(***************************************************************************)
Letters ==
  {"A","B","C","D","E","F","G","H","I","J","K","L","M","N","O","P","Q","R",
   "S","T","U","V","W","X","Y","Z","a","b","c","d","e","f","g","h","i","j",
   "k","l","m","n","o","p","q","r","s","t","u","v","w","x","y","z"}

Digits == {"0","1","2","3","4","5","6","7","8","9"}

\* r"[ \t\r\n\f]+", skipped
Whitespace == {" ", "\t", "\r", "\n", "\f"}

\* ([A-Za-z]|_)   and   ([A-Za-z]|_|\d)
VarStart == Letters \cup {"_"}
VarCont == Letters \cup {"_"} \cup Digits

\* str::len of one character: bytes of its UTF-8 encoding
ByteLen(c) == IF c \in {"U+2295", "U+22BB"} THEN 3 ELSE 1

RECURSIVE StrLen(_)
StrLen(s) == IF s = <<>> THEN 0 ELSE ByteLen(Head(s)) + StrLen(Tail(s))

\* byte offset of the character at index i (1-based) of s
ByteOffset(s, i) == StrLen(SubSeq(s, 1, i - 1))

\* the #[token(..)] spellings made of letters
KeywordKind(text) ==
  IF text = <<"N","O","T">> THEN "Not"
  ELSE IF text = <<"A","N","D">> THEN "And"
  ELSE IF text = <<"O","R">> THEN "Or"
  ELSE IF text = <<"X","O","R">> THEN "Xor"
  ELSE IF text = <<"t","r","u","e">> THEN "True"
  ELSE IF text = <<"f","a","l","s","e">> THEN "False"
  ELSE "Var"

\* the one-character #[token(..)] spellings; anything else is #[error]
SymbolKind(c) ==
  IF c = "!" THEN "Not"
  ELSE IF c = "." THEN "And"
  ELSE IF c = "+" THEN "Or"
  ELSE IF c \in {"^", "U+2295", "U+22BB"} THEN "Xor"
  ELSE IF c = "1" THEN "True"
  ELSE IF c = "0" THEN "False"
  ELSE IF c = "(" THEN "LParen"
  ELSE IF c = ")" THEN "RParen"
  ELSE IF c = "=" THEN "Equals"
  ELSE "Error"

RECURSIVE SkipWhitespace(_, _)
SkipWhitespace(s, i) ==
  IF i <= Len(s) /\ s[i] \in Whitespace THEN SkipWhitespace(s, i + 1) ELSE i

RECURSIVE VarEnd(_, _)
VarEnd(s, i) ==
  IF i <= Len(s) /\ s[i] \in VarCont THEN VarEnd(s, i + 1) ELSE i

\* One match of the token automaton at a non-whitespace character i: the
\* longest match, the fixed spellings winning a tie with the variable
\* pattern; a character that starts no lexeme is the #[error] variant.
LogosMatch(s, i) ==
  LET c == s[i]
      j == IF c \in VarStart THEN VarEnd(s, i + 1)
           ELSE IF c = "-" /\ i < Len(s) /\ s[i + 1] = ">" THEN i + 2
           ELSE i + 1
      kind == IF c \in VarStart THEN KeywordKind(SubSeq(s, i, j - 1))
              ELSE IF j = i + 2 THEN "Equals"
              ELSE SymbolKind(c)
  IN [item |-> Some([kind |-> kind,
                     span |-> [start |-> ByteOffset(s, i),
                               end |-> ByteOffset(s, j)]]),
      at |-> j]

\* logos::skip applied to the #[error] variant as well: an unrecognized
\* character is passed over like whitespace
RECURSIVE LogosNextSkippingErrors(_, _)
LogosNextSkippingErrors(s, i0) ==
  LET i == SkipWhitespace(s, i0) IN
  IF i > Len(s) THEN [item |-> None, at |-> i]
  ELSE IF LogosMatch(s, i).item.val.kind = "Error"
  THEN LogosNextSkippingErrors(s, LogosMatch(s, i).at)
  ELSE LogosMatch(s, i)

\* logos' SpannedIter::next from character index i0: only the whitespace
\* pattern carries logos::skip.
LogosNext(s, i0) ==
  LET i == SkipWhitespace(s, i0) IN
  IF i > Len(s) THEN [item |-> None, at |-> i] ELSE LogosMatch(s, i)

\* Lexer::new
LexerNew(s) == [length |-> StrLen(s), logos |-> 1, eof |-> FALSE]

EofToken(len) == [kind |-> "Eof", span |-> [start |-> len, end |-> len]]

\* Lexer::next without `self.eof = true`
LexerNextEofNotRecorded(s, lx) ==
  Let(LogosNext(s, lx.logos), LAMBDA r :
    IF r.item.some
    THEN [item |-> r.item, lexer |-> [lx EXCEPT !.logos = r.at]]
    ELSE IF lx.eof
    THEN [item |-> None, lexer |-> [lx EXCEPT !.logos = r.at]]
    ELSE [item |-> Some(EofToken(lx.length)),
          lexer |-> [lx EXCEPT !.logos = r.at]])

\* Lexer::next: the item returned and the lexer afterwards
LexerNext(s, lx) ==
  Let(LogosNext(s, lx.logos), LAMBDA r :
    IF r.item.some
    THEN [item |-> r.item, lexer |-> [lx EXCEPT !.logos = r.at]]
    ELSE IF lx.eof
    THEN [item |-> None, lexer |-> [lx EXCEPT !.logos = r.at]]
    ELSE [item |-> Some(EofToken(lx.length)),
          lexer |-> [lx EXCEPT !.logos = r.at, !.eof = TRUE]])

\* Token::text: the slice of the input at the token's byte span
TokenText(s, tok) ==
  LET I == {i \in 1..Len(s) : /\ ByteOffset(s, i) >= tok.span.start
                              /\ ByteOffset(s, i) < tok.span.end}
  IN IF I = {} THEN <<>>
     ELSE SubSeq(s, CHOOSE i \in I : \A k \in I : i <= k,
                    CHOOSE i \in I : \A k \in I : i >= k)

(***************************************************************************)
(* parser.rs                                                               *)
(***************************************************************************)
Ok(v, st) == [ok |-> TRUE, val |-> v, st |-> st]
Err(e, st) == [ok |-> FALSE, err |-> e, st |-> st]

UnexpectedToken(expected, got) ==
  [type |-> "UnexpectedToken", expected |-> expected, got |-> got]
UnexpectedEof(got) == [type |-> "UnexpectedEof", got |-> got]

Spanned(start, end, node) ==
  [span |-> [start |-> start, end |-> end], node |-> node]

\* Display of TK, as used for `expected`
TKToString(kind) ==
  IF kind = "Var" THEN "Variable"
  ELSE IF kind = "LParen" THEN "("
  ELSE IF kind = "RParen" THEN ")"
  ELSE IF kind \in {"Not", "And", "Or", "Xor"} THEN
    (IF kind = "Not" THEN "NOT" ELSE IF kind = "And" THEN "AND"
     ELSE IF kind = "Or" THEN "OR" ELSE "XOR")
  ELSE kind

\* Parser::new: the Peekable<Lexer> with nothing peeked, an empty map
ParserNew(s) ==
  [lexer |-> LexerNew(s), peeked |-> None,
   variables |-> [n \in {} |-> 0], counter |-> 0]

\* Parser::next
ParserNext(s, st) ==
  Let(IF st.peeked.some
      THEN [item |-> st.peeked.val, lexer |-> st.lexer]
      ELSE LexerNext(s, st.lexer), LAMBDA r :
    IF r.item.some
    THEN Ok(r.item.val, [st EXCEPT !.lexer = r.lexer, !.peeked = None])
    ELSE Err(UnexpectedEof(EofToken(StrLen(s))),
             [st EXCEPT !.lexer = r.lexer, !.peeked = None]))

\* Peekable::peek: the slot is filled from the lexer when it is empty
FillPeeked(s, st) ==
  IF st.peeked.some THEN st
  ELSE Let(LexerNext(s, st.lexer), LAMBDA r :
         [st EXCEPT !.lexer = r.lexer, !.peeked = Some(r.item)])

\* Parser::peek: the kind of the next token, which stays in the slot
ParserPeek(s, st) ==
  Let(FillPeeked(s, st), LAMBDA st1 :
    [kind |-> IF st1.peeked.val.some THEN st1.peeked.val.val.kind ELSE "Eof",
     st |-> st1])

\* Parser::expect (Parser::consume is the same, dropping the token)
Expect(s, st, expected) ==
  Let(ParserNext(s, st), LAMBDA r :
    IF ~r.ok THEN r
    ELSE IF r.val.kind # expected
         THEN Err(UnexpectedToken(TKToString(expected), r.val), r.st)
         ELSE r)

Consume(s, st, expected) == Expect(s, st, expected)

\* insert_var with insert in place of entry().or_insert_with(): a name seen
\* again takes a new index
InsertVarOverwriting(st, key) ==
  [index |-> st.counter,
   st |-> [st EXCEPT
             !.variables = [n \in DOMAIN st.variables \cup {key} |->
                              IF n = key THEN st.counter
                              ELSE st.variables[n]],
             !.counter = st.counter + 1]]

\* Parser::insert_var: entry(key).or_insert_with(counter++)
InsertVar(st, key) ==
  IF key \in DOMAIN st.variables
  THEN [index |-> st.variables[key], st |-> st]
  ELSE [index |-> st.counter,
        st |-> [st EXCEPT
                  !.variables = [n \in DOMAIN st.variables \cup {key} |->
                                   IF n = key THEN st.counter
                                   ELSE st.variables[n]],
                  !.counter = st.counter + 1]]

\* Parser::parse_bool
ParseBool(s, st, t) ==
  Let(ParserNext(s, st), LAMBDA r :
    Ok(Spanned(r.val.span.start, r.val.span.end,
               [type |-> "Bool", value |-> (t = "True")]), r.st))

\* Parser::parse_var
ParseVar(s, st) ==
  Let(ParserNext(s, st), LAMBDA r :
    Let(InsertVar(r.st, TokenText(s, r.val)), LAMBDA v :
      Ok(Spanned(r.val.span.start, r.val.span.end,
                 [type |-> "Var", index |-> v.index]), v.st)))

RECURSIVE ParseExpr(_, _)

\* Parser::parse_not
ParseNot(s, st) ==
  Let(ParserNext(s, st), LAMBDA not_token :
    Let(ParseExpr(s, not_token.st), LAMBDA e :
      IF ~e.ok THEN e
      ELSE Ok(Spanned(not_token.val.span.start, e.val.span.end,
                      [type |-> "Not", e |-> e.val]), e.st)))

\* Parser::parse_group
ParseGroup(s, st) ==
  Let(ParserNext(s, st), LAMBDA lp_token :
    Let(ParseExpr(s, lp_token.st), LAMBDA e :
      IF ~e.ok THEN e
      ELSE Let(Expect(s, e.st, "RParen"), LAMBDA rp_token :
             IF ~rp_token.ok THEN rp_token
             ELSE Ok(Spanned(lp_token.val.span.start, rp_token.val.span.end,
                             e.val.node), rp_token.st))))

\* Parser::parse_expr: the `match self.peek()` that parses the first term
ParseTerm(s, st) ==
  Let(ParserPeek(s, st), LAMBDA p :
    IF p.kind \in {"True", "False"} THEN ParseBool(s, p.st, p.kind)
    ELSE IF p.kind = "Var" THEN ParseVar(s, p.st)
    ELSE IF p.kind = "Not" THEN ParseNot(s, p.st)
    ELSE IF p.kind = "LParen" THEN ParseGroup(s, p.st)
    ELSE Let(ParserNext(s, p.st), LAMBDA token :
           IF ~token.ok THEN token
           ELSE Err(UnexpectedToken("boolean expression", token.val),
                    token.st)))

\* the `loop` parsing one term, not a whole expression, as right operand:
\* the usual left-associative loop
RECURSIVE ParseExprLoopTermOperand(_, _, _)
ParseExprLoopTermOperand(s, st, lhs) ==
  Let(ParserPeek(s, st), LAMBDA p :
    IF p.kind \in {"And", "Or", "Xor"} THEN
      Let(ParserNext(s, p.st), LAMBDA adv :
        Let(ParseTerm(s, adv.st), LAMBDA rhs :
          IF ~rhs.ok THEN rhs
          ELSE ParseExprLoopTermOperand(s, rhs.st,
                 Spanned(lhs.span.start, rhs.val.span.end,
                         [type |-> "BinOp", op |-> p.kind,
                          lhs |-> lhs, rhs |-> rhs.val]))))
    ELSE IF p.kind \in {"RParen", "Equals", "Eof"} THEN Ok(lhs, p.st)
    ELSE Let(ParserNext(s, p.st), LAMBDA token :
           IF ~token.ok THEN token
           ELSE Err(UnexpectedToken("AND, OR, XOR or )", token.val),
                    token.st)))

\* Parser::parse_expr: the `loop`, entered with the term parsed so far
RECURSIVE ParseExprLoop(_, _, _)
ParseExprLoop(s, st, lhs) ==
  Let(ParserPeek(s, st), LAMBDA p :
    IF p.kind \in {"And", "Or", "Xor"} THEN
      Let(ParserNext(s, p.st), LAMBDA adv :
        Let(ParseExpr(s, adv.st), LAMBDA rhs :
          IF ~rhs.ok THEN rhs
          ELSE ParseExprLoop(s, rhs.st,
                 Spanned(lhs.span.start, rhs.val.span.end,
                         [type |-> "BinOp", op |-> p.kind,
                          lhs |-> lhs, rhs |-> rhs.val]))))
    ELSE IF p.kind \in {"RParen", "Equals", "Eof"} THEN Ok(lhs, p.st)
    ELSE Let(ParserNext(s, p.st), LAMBDA token :
           IF ~token.ok THEN token
           ELSE Err(UnexpectedToken("AND, OR, XOR or )", token.val),
                    token.st)))

\* Parser::parse_expr
ParseExpr(s, st) ==
  Let(ParseTerm(s, st), LAMBDA lhs :
    IF ~lhs.ok THEN lhs ELSE ParseExprLoop(s, lhs.st, lhs.val))

\* sort_unstable_by on the index, then the names: the entries of the map are
\* taken smallest index first
RECURSIVE SortedNames(_)
SortedNames(variables) ==
  IF DOMAIN variables = {} THEN <<>>
  ELSE LET m == CHOOSE n \in DOMAIN variables :
                  \A k \in DOMAIN variables : variables[n] <= variables[k]
       IN <<m>> \o SortedNames([n \in DOMAIN variables \ {m} |-> variables[n]])

\* Parser::parse_equation
ParseEquation(s) ==
  Let(ParseExpr(s, ParserNew(s)), LAMBDA lhs :
    IF ~lhs.ok THEN lhs
    ELSE Let(Consume(s, lhs.st, "Equals"), LAMBDA eq :
           IF ~eq.ok THEN eq
           ELSE Let(Expect(s, eq.st, "Var"), LAMBDA out :
                  IF ~out.ok THEN out
                  ELSE Ok([inputs |-> SortedNames(out.st.variables),
                           lhs |-> lhs.val,
                           output |-> TokenText(s, out.val)], out.st))))

(***************************************************************************)
(* compiler.rs                                                             *)
(***************************************************************************)
\* the match of compile_expr with the Xor arm yielding Op::Or
BinOpInstrXorAsOr(op) == [op |-> IF op = "Xor" THEN "Or" ELSE op]

\* the Op a BinOp lowers to: the `match op` of compile_expr
BinOpInstr(op) == [op |-> op]

\* compile_expr without the recursive call on lhs
RECURSIVE CompileExprRhsOnly(_, _)
CompileExprRhsOnly(ops, expr) ==
  LET n == expr.node IN
  IF n.type = "Bool" THEN Append(ops, [op |-> "Push", value |-> n.value])
  ELSE IF n.type = "Var" THEN Append(ops, [op |-> "Load", index |-> n.index])
  ELSE IF n.type = "Not"
  THEN Append(CompileExprRhsOnly(ops, n.e), [op |-> "Not"])
  ELSE Append(CompileExprRhsOnly(ops, n.rhs), BinOpInstr(n.op))

\* Compiler::compile_expr: the instructions appended to ops
RECURSIVE CompileExpr(_, _)
CompileExpr(ops, expr) ==
  LET n == expr.node IN
  IF n.type = "Bool" THEN Append(ops, [op |-> "Push", value |-> n.value])
  ELSE IF n.type = "Var" THEN Append(ops, [op |-> "Load", index |-> n.index])
  ELSE IF n.type = "Not" THEN Append(CompileExpr(ops, n.e), [op |-> "Not"])
  ELSE Append(CompileExpr(CompileExpr(ops, n.rhs), n.lhs), BinOpInstr(n.op))

\* Compiler::compile
Compile(equation) ==
  [inputs |-> equation.inputs,
   lhs |-> CompileExpr(<<>>, equation.lhs),
   output |-> equation.output]

(***************************************************************************)
(* vm.rs                                                                   *)
(***************************************************************************)
RECURSIVE Pow2(_)
Pow2(n) == IF n = 0 THEN 1 ELSE 2 * Pow2(n - 1)

\* usize_to_bools shifting by i - 1: least significant bit first
UsizeToBoolsLsbFirst(num, digits) ==
  [i \in 1..digits |-> ((num \div Pow2(i - 1)) % 2) = 1]

\* usize_to_bools: (1..=digits).map(|i| (num >> (digits - i)) & 1 == 1)
UsizeToBools(num, digits) ==
  [i \in 1..digits |-> ((num \div Pow2(digits - i)) % 2) = 1]

\* lhs $op rhs of the binop! macro
ApplyBinOp(op, l, r) ==
  IF op = "And" THEN l /\ r
  ELSE IF op = "Or" THEN l \/ r
  ELSE l # r

\* the operand stack an instruction needs
Pops(instr) ==
  IF instr.op \in {"And", "Or", "Xor"} THEN 2
  ELSE IF instr.op = "Not" THEN 1 ELSE 0

\* one iteration of the `for ip` loop of VM::exec on a stack that holds the
\* operands; the top of the stack is its last element
ExecInstr(instr, stk, inputs) ==
  LET n == Len(stk) IN
  IF instr.op = "Push" THEN Append(stk, instr.value)
  ELSE IF instr.op = "Load" THEN Append(stk, inputs[instr.index + 1])
  ELSE IF instr.op = "Not" THEN Append(SubSeq(stk, 1, n - 1), ~stk[n])
  ELSE Append(SubSeq(stk, 1, n - 2), ApplyBinOp(instr.op, stk[n], stk[n - 1]))

(***************************************************************************)
(* vm.rs: impl Display for TruthTable                                      *)
(***************************************************************************)
RECURSIVE Join(_, _)
Join(things, sep) ==
  IF things = <<>> THEN <<>>
  ELSE IF Len(things) = 1 THEN things[1]
  ELSE things[1] \o sep \o Join(Tail(things), sep)

\* str::repeat
Repeat(c, n) == [i \in 1..n |-> c]

\* format!("{:<w$}", if b { 1 } else { 0 })
FormatBool(b, w) ==
  <<IF b THEN "1" ELSE "0">> \o Repeat(" ", IF w > 1 THEN w - 1 ELSE 0)

Min(a, b) == IF a < b THEN a ELSE b

\* <TruthTable as Display>::fmt
Display(t) ==
  LET output_length == StrLen(t.output_name)
      lengths == [i \in 1..Len(t.input_names) |-> StrLen(t.input_names[i])]
      header == <<"|", " ">> \o Join(t.input_names, <<" ", "|", " ">>)
                \o <<" ", "|", " ">> \o t.output_name \o <<" ", "|">>
      separator == <<"|">>
                   \o Join([i \in 1..Len(lengths) |->
                              Repeat("-", lengths[i] + 2)], <<"|">>)
                   \o <<"|">> \o Repeat("-", output_length + 2) \o <<"|">>
      cells(r) == [i \in 1..Min(Len(r), Len(lengths)) |->
                     FormatBool(r[i], lengths[i])]
      line(k) == <<"|", " ">> \o Join(cells(t.inputs[k]), <<" ", "|", " ">>)
                 \o <<" ", "|">>
                 \o <<" ">> \o FormatBool(t.outputs[k], output_length)
                 \o <<" ", "|">>
      lines == [k \in 1..Min(Len(t.inputs), Len(t.outputs)) |-> line(k)]
  IN header \o <<"\n">> \o separator \o <<"\n">>
     \o Join(lines, <<"\n">>) \o <<"\n">>

(***************************************************************************)
(* The lines main may read                                                 *)
(***************************************************************************)
\* every concatenation of at most n words of W
RECURSIVE WordTexts(_, _)
WordTexts(W, n) ==
  IF n = 0 THEN {<<>>}
  ELSE LET P == WordTexts(W, n - 1) IN P \cup {p \o w : p \in P, w \in W}

AnyWords ==
  {<<"A">>, <<"B">>, <<"!">>, <<"+">>, <<"(">>, <<")">>, <<"=">>, <<"1">>,
   <<"#">>, <<" ">>}

AtomWords == {<<"A">>, <<"B">>, <<"1">>}
OpWords == {<<".">>, <<"+">>, <<"^">>}

\* expression texts nested at most d deep
RECURSIVE ExprTexts(_)
ExprTexts(d) ==
  IF d = 0 THEN AtomWords
  ELSE LET E == ExprTexts(d - 1) IN
       AtomWords
       \cup {<<"!">> \o e : e \in E}
       \cup {<<"(">> \o e \o <<")">> : e \in E}
       \cup {a \o o \o e : a \in AtomWords, o \in OpWords, e \in E}
       \cup {<<"(">> \o e \o <<")">> \o <<"+">> \o <<"B">> : e \in E}

EquationTexts ==
  {e \o <<"=">> \o z : e \in ExprTexts(MaxDepth), z \in {<<"Z">>, <<"A">>}}

\* u1 op1 u2 op2 u3 = Z over three variables
ChainTexts ==
  {u1 \o o1 \o u2 \o o2 \o u3 \o <<"=">> \o <<"Z">> :
     u1 \in {<<"A">>, <<"B">>}, u2 \in {<<"A">>, <<"B">>, <<"C">>},
     u3 \in {<<"A">>, <<"C">>, <<"0">>}, o1 \in OpWords, o2 \in OpWords}

TextAndOr == <<"A"," ","A","N","D"," ","B"," ","O","R"," ","C"," ","="," ","Z">>
TextNotTrue == <<"N","O","T"," ","t","r","u","e"," ","="," ","Z">>
TextHash == <<"A"," ","#"," ","O","R"," ","B"," ","="," ","C">>
TextNoHash == <<"A"," ","O","R"," ","B"," ","="," ","C">>
TextBA == <<"B"," ","A","N","D"," ","A"," ","="," ","C">>
TextLeadingAnd == <<"A","N","D"," ","A"," ","="," ","B">>
TextAA == <<"A"," ","="," ","A">>
TextTrailing == <<"A"," ","="," ","B"," ","C">>
TextLong == <<"(","o","u","t","_","1"," ","-",">"," ","x">>
TextWide == <<"a","b"," ","X","O","R"," ","c"," ","-",">"," ","o","u","t">>

ExampleTexts ==
  {TextAndOr, TextNotTrue, TextHash, TextNoHash, TextBA, TextLeadingAnd,
   TextAA, TextTrailing, TextLong, TextWide}

\* read_line keeps the line terminator; at end of input the line is empty
Lines ==
  {t \o <<"\n">> : t \in WordTexts(AnyWords, MaxWords) \cup EquationTexts
                         \cup ChainTexts \cup ExampleTexts}
  \cup {<<>>}

(***************************************************************************)
(* main.rs and VM::gen, step by step                                       *)
(***************************************************************************)
NoEquation == [ok |-> FALSE, err |-> [type |-> "not parsed"]]
NoProgram == [inputs |-> <<>>, lhs |-> <<>>, output |-> <<>>]
NoTable == [input_names |-> <<>>, inputs |-> <<>>, output_name |-> <<>>,
            outputs |-> <<>>]

\* the items a fresh Lexer returns until it is in state lx
RECURSIVE ItemsUntil(_, _, _)
ItemsUntil(s, from, lx) ==
  IF from = lx THEN <<>>
  ELSE LET r == LexerNext(s, from) IN <<r.item>> \o ItemsUntil(s, r.lexer, lx)

Init ==
  /\ input = <<>>
  /\ pc = "prompt"
  /\ panic = "none"
  /\ lexer = LexerNew(<<>>)
  /\ yielded = <<>>
  /\ parsed = NoEquation
  /\ compiled = NoProgram
  /\ stack = <<>>
  /\ ip = 0
  /\ row = 0
  /\ rows = <<>>
  /\ outputs = <<>>
  /\ table = NoTable
  /\ printed = <<>>

\* main: the top of the `loop`: the locals of the iteration before are
\* dropped; print!("> ")
Prompt ==
  /\ pc = "prompt"
  /\ printed' = <<">", " ">>
  /\ pc' = "read"
  /\ input' = <<>>
  /\ lexer' = LexerNew(<<>>)
  /\ yielded' = <<>>
  /\ parsed' = NoEquation
  /\ compiled' = NoProgram
  /\ stack' = <<>>
  /\ ip' = 0
  /\ row' = 0
  /\ rows' = <<>>
  /\ outputs' = <<>>
  /\ table' = NoTable
  /\ UNCHANGED panic

\* main: read_line(&mut input); Parser::new(&input)
ReadLine ==
  /\ pc = "read"
  /\ \E line \in Lines :
       /\ input' = line
       /\ lexer' = LexerNew(line)
  /\ pc' = "parse"
  /\ UNCHANGED <<panic, yielded, parsed, compiled, stack, ip, row, rows,
                 outputs, table, printed>>

\* main going on to the compiler whatever parse_equation() returned
UnwrapUnchecked(r) ==
  /\ parsed' = IF r.ok THEN [ok |-> TRUE, val |-> r.val]
               ELSE [ok |-> FALSE, err |-> r.err]
  /\ lexer' = r.st.lexer
  /\ yielded' = ItemsUntil(input, LexerNew(input), r.st.lexer)
  /\ pc' = "compile" /\ panic' = panic

\* main: what parse_equation() returned, unwrapped
Unwrap(r) ==
  /\ parsed' = IF r.ok THEN [ok |-> TRUE, val |-> r.val]
               ELSE [ok |-> FALSE, err |-> r.err]
  /\ lexer' = r.st.lexer
  /\ yielded' = ItemsUntil(input, LexerNew(input), r.st.lexer)
  /\ IF r.ok THEN pc' = "compile" /\ panic' = panic
     ELSE pc' = "panicked" /\ panic' = "unwrap on Err"

\* main: parser.parse_equation().unwrap(); Compiler::new
Parse ==
  /\ pc = "parse"
  /\ Unwrap(ParseEquation(input))
  /\ UNCHANGED <<input, compiled, stack, ip, row, rows, outputs, table,
                 printed>>

\* main: compiler.compile(); VM::new
CompileStep ==
  /\ pc = "compile"
  /\ compiled' = Compile(parsed.val)
  /\ stack' = <<>>
  /\ pc' = "gen"
  /\ UNCHANGED <<input, panic, lexer, yielded, parsed, ip, row, rows, outputs,
                 table, printed>>

\* VM::gen: length, num_rows, inputs
GenInputs ==
  /\ pc = "gen"
  /\ LET length == Len(compiled.inputs)
         num_rows == Pow2(length)
     IN rows' = [i \in 1..num_rows |-> UsizeToBools(i - 1, length)]
  /\ row' = 0
  /\ ip' = 0
  /\ outputs' = <<>>
  /\ pc' = "exec"
  /\ UNCHANGED <<input, panic, lexer, yielded, parsed, compiled, stack, table,
                 printed>>

\* VM::exec: one instruction of the row being evaluated
ExecStep ==
  /\ pc = "exec"
  /\ row < Len(rows)
  /\ ip < Len(compiled.lhs)
  /\ LET instr == compiled.lhs[ip + 1] IN
       IF Len(stack) < Pops(instr)
       THEN /\ pc' = "panicked"
            /\ panic' = "pop on empty stack"
            /\ UNCHANGED <<stack, ip>>
       ELSE IF instr.op = "Load" /\ instr.index >= Len(rows[row + 1])
       THEN /\ pc' = "panicked"
            /\ panic' = "index out of bounds"
            /\ UNCHANGED <<stack, ip>>
       ELSE /\ stack' = ExecInstr(instr, stack, rows[row + 1])
            /\ ip' = ip + 1
            /\ UNCHANGED <<pc, panic>>
  /\ UNCHANGED <<input, lexer, yielded, parsed, compiled, row, rows, outputs,
                 table, printed>>

\* VM::exec: the final self.pop(), collected by VM::gen
ExecReturn ==
  /\ pc = "exec"
  /\ row < Len(rows)
  /\ ip = Len(compiled.lhs)
  /\ IF stack = <<>>
     THEN /\ pc' = "panicked"
          /\ panic' = "pop on empty stack"
          /\ UNCHANGED <<stack, ip, row, outputs>>
     ELSE /\ outputs' = Append(outputs, stack[Len(stack)])
          /\ stack' = SubSeq(stack, 1, Len(stack) - 1)
          /\ row' = row + 1
          /\ ip' = 0
          /\ UNCHANGED <<pc, panic>>
  /\ UNCHANGED <<input, lexer, yielded, parsed, compiled, rows, table,
                 printed>>

\* VM::gen: the TruthTable returned
GenReturn ==
  /\ pc = "exec"
  /\ row = Len(rows)
  /\ table' = [input_names |-> compiled.inputs, inputs |-> rows,
               output_name |-> compiled.output, outputs |-> outputs]
  /\ pc' = "print"
  /\ UNCHANGED <<input, panic, lexer, yielded, parsed, compiled, stack, ip,
                 row, rows, outputs, printed>>

\* main: println!("{}", truth_table), the end of the loop body
PrintTable ==
  /\ pc = "print"
  /\ printed' = printed \o Display(table) \o <<"\n">>
  /\ pc' = "prompt"
  /\ UNCHANGED <<input, panic, lexer, yielded, parsed, compiled, stack, ip,
                 row, rows, outputs, table>>

Next ==
  \/ Prompt
  \/ ReadLine
  \/ Parse
  \/ CompileStep
  \/ GenInputs
  \/ ExecStep
  \/ ExecReturn
  \/ GenReturn
  \/ PrintTable

Spec == Init /\ [][Next]_vars

(***************************************************************************)
(* The Lexer on its own: any text, Lexer::next called again and again      *)
(***************************************************************************)
LexWords ==
  {<<"A">>, <<"1">>, <<"N", "O", "T">>, <<"O", "R">>, <<"U+2295">>,
   <<"-", ">">>, <<"#">>, <<" ">>, <<"=">>, <<"(">>}

InitLexer ==
  /\ input \in WordTexts(LexWords, MaxLexWords)
  /\ pc = "lexing"
  /\ panic = "none"
  /\ lexer = LexerNew(input)
  /\ yielded = <<>>
  /\ parsed = NoEquation
  /\ compiled = NoProgram
  /\ stack = <<>>
  /\ ip = 0
  /\ row = 0
  /\ rows = <<>>
  /\ outputs = <<>>
  /\ table = NoTable
  /\ printed = <<>>

Returned(r) ==
  /\ lexer' = r.lexer
  /\ yielded' = Append(yielded, r.item)

\* one call of Lexer::next
CallNext ==
  /\ pc = "lexing"
  /\ Len(yielded) < MaxLexWords + ExtraCalls
  /\ Returned(LexerNext(input, lexer))
  /\ UNCHANGED <<input, pc, panic, parsed, compiled, stack, ip, row, rows,
                 outputs, table, printed>>

NextLexer == CallNext

SpecLexer == InitLexer /\ [][NextLexer]_vars

(***************************************************************************)
(* Lexer::next called repeatedly                                           *)
(***************************************************************************)
IsEof(item) == item.some /\ item.val.kind = "Eof"
IsReal(item) == item.some /\ item.val.kind # "Eof"

\* the character at index i lies inside the span of token tok
Covers(s, tok, i) ==
  /\ tok.span.start <= ByteOffset(s, i)
  /\ ByteOffset(s, i) < tok.span.end

\* C9: however often Lexer::next is called, Eof is returned exactly once,
\* right after the last real token (when every character that is not
\* whitespace has been returned inside a token), with span (len, len) for
\* len the byte length of the input; every call after it returns None, and
\* no token follows it.
C9_EofOnceThenNone ==
  pc = "lexing" =>
    LET n == Len(yielded)
        len == StrLen(input)
        E == {i \in 1..n : IsEof(yielded[i])}
    IN /\ Cardinality(E) <= 1
       /\ \A i \in 1..n : ~yielded[i].some => \E e \in E : e < i
       /\ n >= Len(input) + 1 => E # {}
       /\ \A e \in E :
            /\ yielded[e].val.span = [start |-> len, end |-> len]
            /\ \A j \in 1..(e - 1) : IsReal(yielded[j])
            /\ \A j \in (e + 1)..n : yielded[j] = None
            /\ \A c \in 1..Len(input) :
                 input[c] \notin Whitespace =>
                   \E j \in 1..(e - 1) : Covers(input, yielded[j].val, c)

\* a real token, then Eof, then None twice, on a text with a three-byte
\* character
C9_Witness ==
  /\ pc = "lexing"
  /\ Len(yielded) = 4
  /\ IsReal(yielded[1]) /\ IsEof(yielded[2])
  /\ yielded[3] = None /\ yielded[4] = None
  /\ StrLen(input) > Len(input)

(***************************************************************************)
(* The table against the expression tree                                   *)
(***************************************************************************)
\* parse_equation has returned in this iteration of main
Parsed == parsed # NoEquation

\* the value of an expression tree under an assignment of its variables
RECURSIVE Eval(_, _)
Eval(expr, assignment) ==
  LET n == expr.node IN
  IF n.type = "Bool" THEN n.value
  ELSE IF n.type = "Var" THEN assignment[n.index + 1]
  ELSE IF n.type = "Not" THEN ~Eval(n.e, assignment)
  ELSE IF n.op = "And" THEN Eval(n.lhs, assignment) /\ Eval(n.rhs, assignment)
  ELSE IF n.op = "Or" THEN Eval(n.lhs, assignment) \/ Eval(n.rhs, assignment)
  ELSE Eval(n.lhs, assignment) # Eval(n.rhs, assignment)

\* the indices of the Var nodes of a tree
RECURSIVE VarIndices(_)
VarIndices(expr) ==
  LET n == expr.node IN
  IF n.type = "Bool" THEN {}
  ELSE IF n.type = "Var" THEN {n.index}
  ELSE IF n.type = "Not" THEN VarIndices(n.e)
  ELSE VarIndices(n.lhs) \cup VarIndices(n.rhs)

\* C1: every output the VM has produced, and every output of the table
\* returned by gen, is the value of the parsed tree under that row's
\* assignment; "NOT true = Z" gives the single row with output false.
C1_OutputIsTreeValue ==
  /\ (pc = "exec" /\ ip = 0) =>
       \A r \in 1..Len(outputs) : outputs[r] = Eval(parsed.val.lhs, rows[r])
  /\ pc = "print" =>
       /\ Len(table.outputs) = Len(table.inputs)
       /\ \A r \in 1..Len(table.inputs) :
            table.outputs[r] = Eval(parsed.val.lhs, table.inputs[r])
       /\ input = TextNotTrue \o <<"\n">> =>
            table.inputs = <<(<<>>)>> /\ table.outputs = <<FALSE>>

\* a table of eight rows over a tree with a Not and an Xor, with both outputs
C1_Witness ==
  /\ pc = "print"
  /\ Len(table.outputs) = 8
  /\ \E r, q \in 1..8 : table.outputs[r] /\ ~table.outputs[q]
  /\ \E o \in 1..Len(compiled.lhs) : compiled.lhs[o].op = "Xor"

\* the number a row of booleans spells, most significant bit first
RECURSIVE BinaryValue(_)
BinaryValue(bits) ==
  IF bits = <<>> THEN 0
  ELSE 2 * BinaryValue(SubSeq(bits, 1, Len(bits) - 1))
       + (IF bits[Len(bits)] THEN 1 ELSE 0)

\* C2: with k distinct variables in the expression, gen's rows are the k-bit
\* numbers 0 .. 2^k - 1 in order, most significant bit first: 2^k rows of
\* length k, and one output per row in the table returned.
C2_RowsCountInBinary ==
  LET k == Cardinality(VarIndices(parsed.val.lhs)) IN
  /\ pc = "exec" =>
       /\ Len(rows) = Pow2(k)
       /\ \A r \in 1..Len(rows) :
            /\ Len(rows[r]) = k
            /\ BinaryValue(rows[r]) = r - 1
            /\ \A j \in 0..(k - 1) :
                 rows[r][j + 1] = (((r - 1) \div Pow2(k - 1 - j)) % 2 = 1)
  /\ pc = "print" =>
       /\ table.inputs = rows
       /\ Len(table.inputs) = Pow2(k)
       /\ Len(table.outputs) = Pow2(k)

C2_Witness ==
  /\ pc = "print"
  /\ Len(table.inputs) = 8
  /\ table.inputs[2] = <<FALSE, FALSE, TRUE>>
  /\ table.inputs[5] = <<TRUE, FALSE, FALSE>>

\* C10: while gen runs, no instruction finds fewer operands on the stack
\* than it pops and no Load indexes past the assignment, so the VM never
\* panics; before exec's final pop the stack holds exactly one value; and
\* the stack is empty when a row starts and when gen returns.
C10_StackDiscipline ==
  /\ panic \notin {"pop on empty stack", "index out of bounds"}
  /\ pc = "exec" =>
       /\ ip = 0 => stack = <<>>
       /\ (row < Len(rows) /\ ip < Len(compiled.lhs)) =>
            /\ Len(stack) >= Pops(compiled.lhs[ip + 1])
            /\ compiled.lhs[ip + 1].op = "Load" =>
                 compiled.lhs[ip + 1].index < Len(rows[row + 1])
       /\ (row < Len(rows) /\ ip = Len(compiled.lhs)) => Len(stack) = 1
  /\ pc = "print" => stack = <<>>

\* a later row about to start on the emptied stack, after a program with a
\* binary operator ran
C10_Witness ==
  /\ pc = "exec"
  /\ row >= 1 /\ row < Len(rows)
  /\ ip = 0 /\ stack = <<>>
  /\ Len(outputs) = row
  /\ \E o \in 1..Len(compiled.lhs) : compiled.lhs[o].op \in {"And", "Or", "Xor"}

(***************************************************************************)
(* The parser                                                              *)
(***************************************************************************)
Range(f) == {f[i] : i \in DOMAIN f}

\* a tree without its spans
RECURSIVE StripSpans(_)
StripSpans(expr) ==
  LET n == expr.node IN
  IF n.type \in {"Bool", "Var"} THEN n
  ELSE IF n.type = "Not" THEN [type |-> "Not", e |-> StripSpans(n.e)]
  ELSE [type |-> "BinOp", op |-> n.op, lhs |-> StripSpans(n.lhs),
        rhs |-> StripSpans(n.rhs)]

\* the indices of the Var nodes of a tree, from left to right
RECURSIVE VarSeq(_)
VarSeq(expr) ==
  LET n == expr.node IN
  IF n.type = "Bool" THEN <<>>
  ELSE IF n.type = "Var" THEN <<n.index>>
  ELSE IF n.type = "Not" THEN VarSeq(n.e)
  ELSE VarSeq(n.lhs) \o VarSeq(n.rhs)

\* every token of a text, Eof excluded
RECURSIVE TokensFrom(_, _)
TokensFrom(s, lx) ==
  Let(LexerNext(s, lx), LAMBDA r :
    IF IsReal(r.item) THEN <<r.item.val>> \o TokensFrom(s, r.lexer) ELSE <<>>)

Tokens(s) == TokensFrom(s, LexerNew(s))

\* two parse results are the same Equation: inputs, tree shape and output
SameEquation(r1, r2) ==
  /\ r1.ok /\ r2.ok
  /\ r1.val.inputs = r2.val.inputs
  /\ StripSpans(r1.val.lhs) = StripSpans(r2.val.lhs)
  /\ r1.val.output = r2.val.output

\* the characters that begin or continue some lexeme
LexemeChars ==
  VarCont \cup {"!", ".", "+", "^", "U+2295", "U+22BB", "(", ")", "=", "-", ">"}

Unrecognized(c) == c \notin Whitespace /\ c \notin LexemeChars

\* the text with a space in place of every unrecognized character
BlankUnrecognized(s) ==
  [i \in 1..Len(s) |-> IF Unrecognized(s[i]) THEN " " ELSE s[i]]

\* C3 as stated: no unrecognized character reaches the parser as a token,
\* and a line parses to the same Equation as the line with its unrecognized
\* characters read as whitespace; "A # OR B = C" parses as "A OR B = C".
C3_UnrecognizedDropped ==
  Parsed =>
    /\ \A i \in 1..Len(yielded) : yielded[i].val.kind # "Error"
    /\ (\E i \in 1..Len(input) : Unrecognized(input[i])) =>
         (ParseEquation(BlankUnrecognized(input)).ok =>
            SameEquation(parsed, ParseEquation(BlankUnrecognized(input))))
    /\ input = TextHash \o <<"\n">> =>
         SameEquation(parsed, ParseEquation(TextNoHash \o <<"\n">>))

\* C3 amended: only whitespace is dropped.  Every unrecognized character up
\* to the last token the parser pulled was returned by Lexer::next as a
\* token of kind Error spanning that character; an Error token is the last
\* token the parser pulls, and parse_equation then fails with
\* UnexpectedToken carrying it.  "A # OR B = C" fails on the Error token at
\* 2..3, where "A OR B = C" parses.
C3_UnrecognizedIsErrorToken ==
  Parsed =>
    LET n == Len(yielded) IN
    /\ \A c \in 1..Len(input) :
         (Unrecognized(input[c])
            /\ ByteOffset(input, c) < yielded[n].val.span.end) =>
           \E i \in 1..n :
             yielded[i].val = [kind |-> "Error",
                               span |-> [start |-> ByteOffset(input, c),
                                         end |-> ByteOffset(input, c + 1)]]
    /\ \A i \in 1..n :
         yielded[i].val.kind = "Error" =>
           /\ i = n
           /\ ~parsed.ok
           /\ parsed.err.type = "UnexpectedToken"
           /\ parsed.err.got = yielded[i].val
    /\ input = TextHash \o <<"\n">> =>
         /\ ~parsed.ok
         /\ parsed.err = UnexpectedToken("AND, OR, XOR or )",
              [kind |-> "Error", span |-> [start |-> 2, end |-> 3]])
    /\ input = TextNoHash \o <<"\n">> =>
         /\ parsed.ok
         /\ StripSpans(parsed.val.lhs) =
              [type |-> "BinOp", op |-> "Or",
               lhs |-> [type |-> "Var", index |-> 0],
               rhs |-> [type |-> "Var", index |-> 1]]

\* main panicked on "A # OR B = C"
C3_Witness ==
  /\ pc = "panicked"
  /\ input = TextHash \o <<"\n">>
  /\ yielded[Len(yielded)].val.kind = "Error"

\* the leaf a single operand token stands for
Leaf(tok) ==
  IF tok.kind = "Var"
  THEN [type |-> "Var",
        index |-> (CHOOSE i \in 1..Len(parsed.val.inputs) :
                     parsed.val.inputs[i] = TokenText(input, tok)) - 1]
  ELSE [type |-> "Bool", value |-> (tok.kind = "True")]

OperandKinds == {"Var", "True", "False"}
OperatorKinds == {"And", "Or", "Xor"}

\* the tokens pulled are u1 op1 u2 op2 u3 = VAR
IsChain(items) ==
  /\ Len(items) = 7
  /\ \A i \in {1, 3, 5} : items[i].val.kind \in OperandKinds
  /\ \A i \in {2, 4} : items[i].val.kind \in OperatorKinds
  /\ items[6].val.kind = "Equals"
  /\ items[7].val.kind = "Var"

\* C4: And, Or and Xor share one level and associate to the right: a chain
\* u1 op1 u2 op2 u3 of single operands parses to
\* BinOp(op1, u1, BinOp(op2, u2, u3)); the table of "A AND B OR C = Z" is
\* that of A AND (B OR C) and differs from (A AND B) OR C in some row.
C4_RightAssociative ==
  /\ (Parsed /\ IsChain(yielded)) =>
       /\ parsed.ok
       /\ StripSpans(parsed.val.lhs) =
            [type |-> "BinOp", op |-> yielded[2].val.kind,
             lhs |-> Leaf(yielded[1].val),
             rhs |-> [type |-> "BinOp", op |-> yielded[4].val.kind,
                      lhs |-> Leaf(yielded[3].val),
                      rhs |-> Leaf(yielded[5].val)]]
  /\ (pc = "print" /\ input = TextAndOr \o <<"\n">>) =>
       /\ Len(table.inputs) = 8
       /\ \A r \in 1..8 :
            table.outputs[r] =
              (table.inputs[r][1] /\ (table.inputs[r][2] \/ table.inputs[r][3]))
       /\ \E r \in 1..8 :
            table.outputs[r] #
              ((table.inputs[r][1] /\ table.inputs[r][2]) \/ table.inputs[r][3])

C4_Witness ==
  /\ pc = "print"
  /\ input = TextAndOr \o <<"\n">>
  /\ IsChain(yielded)
  /\ table.outputs[2] = FALSE

\* a sequence without its repetitions, first occurrences kept
RECURSIVE FirstOccurrences(_)
FirstOccurrences(seq) ==
  IF seq = <<>> THEN <<>>
  ELSE LET init == FirstOccurrences(SubSeq(seq, 1, Len(seq) - 1))
           last == seq[Len(seq)]
       IN IF last \in Range(init) THEN init ELSE Append(init, last)

\* the names of the Var tokens among the first n items, in order
RECURSIVE VarTexts(_, _)
VarTexts(items, n) ==
  IF n = 0 THEN <<>>
  ELSE IF items[n].val.kind = "Var"
       THEN Append(VarTexts(items, n - 1), TokenText(input, items[n].val))
       ELSE VarTexts(items, n - 1)

\* C5: when parse_equation has returned an Equation, inputs is the list of
\* the distinct variable names of the expression (the tokens before
\* `= output`), in order of first occurrence, without duplicates; the Var
\* nodes of the tree, from left to right, are the variable tokens of the
\* expression, each with an index within inputs at which inputs holds the
\* token's name; the output name is in inputs only if the expression has
\* it; "B AND A = C" gives [B, A].
C5_InputsFirstOccurrence ==
  (pc = "compile" /\ parsed.ok) =>
    LET eq == parsed.val
        names == VarTexts(yielded, Len(yielded) - 2)
        nodes == VarSeq(eq.lhs)
    IN /\ eq.inputs = FirstOccurrences(names)
       /\ \A i, j \in 1..Len(eq.inputs) : eq.inputs[i] = eq.inputs[j] => i = j
       /\ Len(nodes) = Len(names)
       /\ \A j \in 1..Len(names) :
            /\ 0 <= nodes[j] /\ nodes[j] < Len(eq.inputs)
            /\ eq.inputs[nodes[j] + 1] = names[j]
       /\ eq.output = TokenText(input, yielded[Len(yielded)].val)
       /\ eq.output \in Range(eq.inputs) => eq.output \in Range(names)
       /\ input = TextBA \o <<"\n">> => eq.inputs = <<(<<"B">>), (<<"A">>)>>

\* an expression naming a variable twice, and the output among the inputs
C5_Witness ==
  /\ pc = "compile" /\ parsed.ok
  /\ Len(parsed.val.inputs) = 2
  /\ Len(VarTexts(yielded, Len(yielded) - 2)) = 3
  /\ parsed.val.output \in Range(parsed.val.inputs)
  /\ parsed.val.inputs[1] = <<"B">>

\* the first token of the line
FirstToken == LexerNext(input, LexerNew(input)).item.val

\* C6: a line whose first token is And, Or, Xor, ')', '=' or Eof makes
\* parse_equation fail with UnexpectedToken carrying that token; and after
\* any failed parse main has panicked with nothing compiled, no row
\* evaluated, no table and nothing printed after the prompt, while the
\* compiler and the VM only ever run after a successful parse.
C6_NoTableOnSyntaxError ==
  /\ (Parsed /\ FirstToken.kind \in {"And", "Or", "Xor", "RParen", "Equals",
                                      "Eof"}) =>
       /\ ~parsed.ok
       /\ parsed.err.type = "UnexpectedToken"
       /\ parsed.err.got = FirstToken
  /\ (Parsed /\ ~parsed.ok) =>
       /\ pc = "panicked"
       /\ compiled = NoProgram
       /\ rows = <<>> /\ outputs = <<>>
       /\ table = NoTable
       /\ printed = <<">", " ">>
  /\ pc \in {"compile", "gen", "exec", "print"} => parsed.ok
  /\ pc = "panicked" => (Parsed /\ ~parsed.ok)

C6_Witness ==
  /\ pc = "panicked"
  /\ input = TextLeadingAnd \o <<"\n">>
  /\ parsed.err.got = [kind |-> "And", span |-> [start |-> 0, end |-> 3]]

\* the tokens toks[i..j-1] derive:  unary := BOOL | VAR | NOT expr | ( expr )
\*                                   expr  := unary (BINOP expr)?
RECURSIVE IsExpr(_, _, _)
IsUnary(toks, i, j) ==
  \/ j = i + 1 /\ toks[i].kind \in OperandKinds
  \/ j > i + 1 /\ toks[i].kind = "Not" /\ IsExpr(toks, i + 1, j)
  \/ j > i + 2 /\ toks[i].kind = "LParen" /\ toks[j - 1].kind = "RParen"
       /\ IsExpr(toks, i + 1, j - 1)

IsExpr(toks, i, j) ==
  \/ IsUnary(toks, i, j)
  \/ \E k \in (i + 1)..(j - 2) :
       /\ toks[k].kind \in OperatorKinds
       /\ IsUnary(toks, i, k)
       /\ IsExpr(toks, k + 1, j)

\* equation := expr '=' VAR
IsEquation(toks) ==
  LET n == Len(toks) IN
  /\ n >= 3
  /\ toks[n].kind = "Var"
  /\ toks[n - 1].kind = "Equals"
  /\ IsExpr(toks, 1, n - 1)

\* C7 as stated: parse_equation returns an Equation exactly when the whole
\* token sequence of the line, up to Eof, derives from equation.
C7_ParsesExactlyTheGrammar ==
  Parsed => (parsed.ok <=> IsEquation(Tokens(input)))

(***************************************************************************)
(* The printed table                                                       *)
(***************************************************************************)
\* the rendering the format describes: one cell per column, the output
\* column last, cells joined by " | " between "| " and " |", every line
\* ended by a newline
ColumnwiseRendering(t) ==
  LET names == Append(t.input_names, t.output_name)
      bar == <<" ", "|", " ">>
      framed(cells) == <<"|", " ">> \o Join(cells, bar) \o <<" ", "|", "\n">>
      separator == <<"|">>
                   \o Join([i \in 1..Len(names) |->
                              Repeat("-", StrLen(names[i]) + 2)], <<"|">>)
                   \o <<"|", "\n">>
      cells(k) == [i \in 1..Len(names) |->
                     LET b == IF i = Len(names) THEN t.outputs[k]
                              ELSE t.inputs[k][i]
                     IN <<IF b THEN "1" ELSE "0">>
                        \o Repeat(" ", StrLen(names[i]) - 1)]
      RECURSIVE lines(_)
      lines(k) == IF k > Len(t.inputs) THEN <<>>
                  ELSE framed(cells(k)) \o lines(k + 1)
  IN framed(names) \o separator \o lines(1)

\* the table of "A = A", line by line
TableAA ==
  <<"|"," ","A"," ","|"," ","A"," ","|","\n">>
  \o <<"|","-","-","-","|","-","-","-","|","\n">>
  \o <<"|"," ","0"," ","|"," ","0"," ","|","\n">>
  \o <<"|"," ","1"," ","|"," ","1"," ","|","\n">>

\* C8 as stated: what main prints for a table is the header
\* "| name1 | ... | output_name |", the separator with name length + 2
\* dashes per column, and one line per row with a padded 1 or 0 per column,
\* each line ended by a newline; for "A = A" exactly the four lines.
C8_DisplayFormat ==
  (pc = "prompt" /\ Parsed) =>
    /\ printed = <<">", " ">> \o ColumnwiseRendering(table) \o <<"\n">>
    /\ input = TextAA \o <<"\n">> =>
         printed = <<">", " ">> \o TableAA \o <<"\n">>
====
